---- MODULE Spec2Model ----
(***************************************************************************)
(* PatchScope: the intervention engine (patchscope_core.py), the sweeps    *)
(* that drive it (patchscope_core.py, experiment_runner.py), the per-      *)
(* attempt logger events (logger.py) and the result classifier            *)
(* (analysis.py).                                                          *)
(*                                                                         *)
(* Text is a sequence of character codes; a token is a text; a layer       *)
(* output is a record holding the hidden states of batch entry 0 (one      *)
(* vector per position) and, for tuple-shaped outputs, the other tuple     *)
(* elements.  Layers are indexed 0..NumLayers-1 as in the source.          *)
(***************************************************************************)
EXTENDS Integers, Sequences, FiniteSets, TLC

\* ------------------------------------------------------------------ bounds
\* number of transformer blocks of the loaded model, len(get_layers())
NumLayers == 2
\* forward passes (hook invocations) of one generate call
MaxCalls == 2
\* calls of analyze_results on one result collection
MaxAnalyses == 2
\* length of a result collection handed to the classifier directly
MaxResults == 2
\* pairs of the sweep whose results are handed to the hotspot aggregator
MaxHotspotPairs == 14
\* results of such a sweep's first pass that are not strong matches
MaxWeak == 1
\* calls of the strategic pair generator in one process
MaxPlans == 2
\* how far the configured layer count may lie from the shipped one
LayerCountSpread == 8
\* length of a pair list handed to _select_diverse_combinations directly
MaxListLen == 30

\* ------------------------------------------------------- program constants
strong_match == 2
partial_match == 1

\* ------------------------------------------------------------ Python helpers
\* the value None
None == [none |-> TRUE]

IsNone(r) == "none" \in DOMAIN r

\* seq[i] succeeds for a Python sequence of length n
PyIndexOK(i, n) == -n <= i /\ i < n

\* the 0-based element Python's seq[i] denotes (negative i counts from the end)
PyIndex(i, n) == IF i < 0 THEN n + i ELSE i

\* str.lower() on one character code
LowerChar(c) == IF c >= 65 /\ c <= 90 THEN c + 32 ELSE c

\* str.lower()
Lower(s) == [k \in 1..Len(s) |-> LowerChar(s[k])]

\* characters str.strip() removes
IsSpace(c) == c \in {9, 10, 11, 12, 13, 32}

RECURSIVE LStrip(_)
LStrip(s) == IF s # <<>> /\ IsSpace(Head(s)) THEN LStrip(Tail(s)) ELSE s

RECURSIVE RStrip(_)
RStrip(s) ==
    IF s # <<>> /\ IsSpace(s[Len(s)]) THEN RStrip(SubSeq(s, 1, Len(s) - 1)) ELSE s

\* str.strip()
Strip(s) == RStrip(LStrip(s))

\* the Python expression  kw in text  on strings
Contains(text, kw) ==
    \E k \in 0..(Len(text) - Len(kw)) : SubSeq(text, k + 1, k + Len(kw)) = kw

\* ---------------------------------------------------------------- inputs
\* source entities: one with a curated keyword list, one without
GeorgeWashington ==
    <<71, 101, 111, 114, 103, 101, 32, 87, 97, 115, 104, 105, 110, 103, 116, 111, 110>>

Rome == <<82, 111, 109, 101>>

SourcePrompts == {GeorgeWashington, Rome}

\* target prompts with their tokenization (the tokenizer is an external
\* collaborator): "?:" marker at token 0, "who ?:" marker at token 1 in its
\* leading-space encoding, "who x:" without a marker
TargetPrompts ==
    { [text |-> <<63, 58>>, tokens |-> << <<63>>, <<58>> >>],
      [text |-> <<119, 104, 111, 32, 63, 58>>,
       tokens |-> << <<119, 104, 111>>, <<288, 63>>, <<58>> >>],
      [text |-> <<119, 104, 111, 32, 120, 58>>,
       tokens |-> << <<119, 104, 111>>, <<288, 120>>, <<58>> >>] }

\* continuations the model may generate after the prompt
\* (nothing, and " first president")
Continuations ==
    { <<>>,
      <<32, 102, 105, 114, 115, 116, 32, 112, 114, 101, 115, 105, 100, 101, 110, 116>> }

\* layer indices a caller may pass: below every index Python accepts for the
\* captured states, below every valid index of the layers, the negative
\* indices Python accepts, the first layer, and the first index past the end
LayerInputs == {-(NumLayers + 3), -(NumLayers + 1), -1, 0, NumLayers}

\* ------------------------------------------------------------------- state
VARIABLES
    hooks,          \* forward hooks registered on the model's layers, in order
    pc,             \* position of the running sweep / request
    kind,           \* which sweep is running
    layer_subset,   \* argument of the targeted sweep
    source_prompt,  \* sweep argument
    target_prompt,  \* sweep argument
    combinations,   \* the (extract, inject) pairs of the sweep, in order
    i,              \* 1-based index of the next pair to attempt
    results,        \* the sweep's result collection
    events,         \* per-attempt events the logger recorded
    source_repr,    \* run_single_patch local
    patch_position, \* run_single_patch local
    hook_handle,    \* run_single_patch local
    calls,          \* history: the forward passes of the running generate call
    attempts,       \* history: each call of run_single_patch and how it ended
    analyses,       \* outputs of analyze_results on the finished sweep's results
    hotspots,       \* outputs of find_knowledge_hotspots, one per analysis
    plans,          \* history: the pair lists run_sweep_experiment built
    selected,       \* history: a call of _select_diverse_combinations
    inflight        \* requests run by concurrent callers on the one model

vars == <<hooks, pc, kind, layer_subset, source_prompt, target_prompt, combinations, i, results,
          events, source_repr, patch_position, hook_handle, calls, attempts,
          analyses, hotspots, plans, selected, inflight>>

\* the histories of the planning steps, and the concurrent callers
offline == <<plans, selected, inflight>>

sweepArgs == <<kind, layer_subset, source_prompt, target_prompt, combinations>>

locals == <<source_repr, patch_position, hook_handle, calls>>

extract_layer == combinations[i][1]

inject_layer == combinations[i][2]

\* ------------------------------------------------------------ the model
\* the vector a layer computes when no hook interferes: hidden_states index
\* `state` (0 is the embedding state) at token position `pos` of a forward
\* pass over `run`
Vec(run, state, pos) == [run |-> run, state |-> state, pos |-> pos]

\* output of layer `layer` in a forward pass over n tokens of `run`
LayerOutput(run, layer, n, isTuple) ==
    [isTuple |-> isTuple,
     hidden_states |-> [p \in 1..n |-> Vec(run, layer + 1, p)],
     rest |-> IF isTuple THEN <<"attn">> ELSE <<>>]

\* patching_hook(module, input_args, output) of one request's closure; the
\* closure variables are passed in and patch_applied is returned with the output
patching_hookNoGuard(output, position, repr, patch_applied) ==
    LET hidden_states == output.hidden_states
        fire == Len(hidden_states) > position
        patched == IF fire
                   THEN [hidden_states EXCEPT ![position + 1] = repr]
                   ELSE hidden_states
    IN  [output |-> [output EXCEPT !.hidden_states = patched],
         patch_applied |-> patch_applied \/ fire,
         wrote |-> fire]

patching_hookOneShot(output, position, repr, patch_applied) ==
    LET hidden_states == output.hidden_states
        fire == Len(hidden_states) > position /\ ~patch_applied
        patched == IF fire
                   THEN [hidden_states EXCEPT ![position + 1] = repr]
                   ELSE hidden_states
    IN  [output |-> [output EXCEPT !.hidden_states = patched],
         patch_applied |-> TRUE,
         wrote |-> fire]

patching_hookNeverMarks(output, position, repr, patch_applied) ==
    LET hidden_states == output.hidden_states
        fire == Len(hidden_states) > position /\ ~patch_applied
        patched == IF fire
                   THEN [hidden_states EXCEPT ![position + 1] = repr]
                   ELSE hidden_states
    IN  [output |-> [output EXCEPT !.hidden_states = patched],
         patch_applied |-> patch_applied,
         wrote |-> fire]

patching_hookBareTensor(output, position, repr, patch_applied) ==
    LET hidden_states == output.hidden_states
        fire == Len(hidden_states) > position /\ ~patch_applied
        patched == IF fire
                   THEN [hidden_states EXCEPT ![position + 1] = repr]
                   ELSE hidden_states
    IN  [output |-> [isTuple |-> FALSE, hidden_states |-> patched, rest |-> <<>>],
         patch_applied |-> patch_applied \/ fire,
         wrote |-> fire]

patching_hook(output, position, repr, patch_applied) ==
    LET hidden_states == output.hidden_states
        fire == Len(hidden_states) > position /\ ~patch_applied
        patched == IF fire
                   THEN [hidden_states EXCEPT ![position + 1] = repr]
                   ELSE hidden_states
    IN  [output |-> [output EXCEPT !.hidden_states = patched],
         patch_applied |-> patch_applied \/ fire,
         wrote |-> fire]

\* one forward pass of the model: every layer runs once and each registered
\* hook is called on its layer's output, in registration order; `wrote` lists
\* the handles of the hooks that overwrote a vector during the pass
RECURSIVE RunHooks(_, _, _, _)
RunHooks(hks, outs, wrote, k) ==
    IF k > Len(hks) THEN [hooks |-> hks, outs |-> outs, wrote |-> wrote]
    ELSE LET h == hks[k]
             r == patching_hook(outs[h.layer], h.patch_position, h.source_repr,
                                h.patch_applied)
         IN  RunHooks([hks EXCEPT ![k].patch_applied = r.patch_applied],
                      [outs EXCEPT ![h.layer] = r.output],
                      IF r.wrote THEN Append(wrote, h.handle) ELSE wrote, k + 1)

Forward(hks, run, n, isTuple) ==
    RunHooks(hks, [l \in 0..(NumLayers - 1) |-> LayerOutput(run, l, n, isTuple)],
             <<>>, 1)

\* register_forward_hook: the handle is the smallest id not in use
FreshHandle(hks) ==
    CHOOSE h \in 1..(Len(hks) + 1) : \A k \in 1..Len(hks) : hks[k].handle # h

RegisterForwardHookSharedFlag(hks, layer, position, repr) ==
    Append(hks, [handle |-> FreshHandle(hks), layer |-> layer,
                 patch_position |-> position, source_repr |-> repr,
                 patch_applied |-> results # <<>> /\ results[Len(results)].patch_applied])

\* a hook's closure starts with patch_applied = False
RegisterForwardHook(hks, layer, position, repr) ==
    Append(hks, [handle |-> FreshHandle(hks), layer |-> layer,
                 patch_position |-> position, source_repr |-> repr,
                 patch_applied |-> FALSE])

HandleRemoveNothing(hks, handle) == hks

\* hook_handle.remove()
HandleRemove(hks, handle) == SelectSeq(hks, LAMBDA h : h.handle # handle)

\* the closure variable patch_applied of the running request
patch_applied ==
    \E k \in 1..Len(hooks) : hooks[k].handle = hook_handle /\ hooks[k].patch_applied

\* ------------------------------------------------- patchscope_core.py
CapturedIndexNoEmbedding(layer_idx) == layer_idx

\* the index into outputs.hidden_states: layer_idx + 1
CapturedIndex(layer_idx) == layer_idx + 1

\* extract_representation: one forward pass over the source prompt with all
\* hidden states captured (index 0 the embedding state, index l+1 the output
\* of layer l), then hidden_states[layer_idx + 1][0, -1, :]
extract_representation(hks, prompt, layer_idx) ==
    LET n == Len(prompt)
        fwd == Forward(hks, "source", n, TRUE)
        captured == [k \in 0..NumLayers |->
                        IF k = 0 THEN [p \in 1..n |-> Vec("source", 0, p)]
                        ELSE fwd.outs[k - 1].hidden_states]
        idx == CapturedIndex(layer_idx)
    IN  IF PyIndexOK(idx, NumLayers + 1)
        THEN [raised |-> FALSE, hooks |-> fwd.hooks, wrote |-> fwd.wrote,
              representation |-> captured[PyIndex(idx, NumLayers + 1)][n]]
        ELSE [raised |-> TRUE, hooks |-> fwd.hooks, wrote |-> fwd.wrote]

MarkerX == <<120>>

\* the marker '?', the default of find_patch_position
Marker == <<63>>

\* the test of find_patch_position on one token (288 is the byte-level
\* space prefix, 9601 the sentencepiece one)
TokenMatches(token, marker) ==
    \/ Lower(Strip(token)) = Lower(marker)
    \/ token \in {marker, <<32>> \o marker, <<288>> \o marker, <<9601>> \o marker}

\* find_patch_position: the first matching token index (0-based), if any
find_patch_position(prompt) ==
    LET hits == {k \in 1..Len(prompt.tokens) : TokenMatches(prompt.tokens[k], Marker)}
    IN  IF hits = {} THEN [found |-> FALSE]
        ELSE [found |-> TRUE,
              index |-> (CHOOSE k \in hits : \A m \in hits : k <= m) - 1]

\* the guard of step 4: the request goes on to layers[inject_layer]
InjectLayerAccepted(layer) == ~(layer >= NumLayers)

NewTextUnstripped(result_text, prompt_text) ==
    IF Len(result_text) > Len(prompt_text)
    THEN SubSeq(result_text, Len(prompt_text) + 1, Len(result_text))
    ELSE <<>>

\* new_text of run_single_patch
NewText(result_text, prompt_text) ==
    IF Len(result_text) > Len(prompt_text)
    THEN Strip(SubSeq(result_text, Len(prompt_text) + 1, Len(result_text)))
    ELSE <<>>

\* the dict run_single_patch returns (the diagnostic source_token and
\* source_repr_norm entries are left out)
PatchResult(applied, result_text) ==
    [extract_layer |-> extract_layer,
     inject_layer |-> inject_layer,
     patch_applied |-> applied,
     generated_text |-> result_text,
     new_tokens |-> NewText(result_text, target_prompt.text),
     source_prompt |-> source_prompt,
     target_prompt |-> target_prompt.text,
     patch_position |-> patch_position]

\* ------------------------------------------------------------ logger.py
log_single_patch_resultSkipAware(result, extract, inject) ==
    IF IsNone(result)
    THEN [type |-> "PATCH_SKIPPED", extract_layer |-> extract, inject_layer |-> inject]
    ELSE IF result.patch_applied
    THEN [type |-> "PATCH_SUCCESS", extract_layer |-> extract, inject_layer |-> inject]
    ELSE [type |-> "PATCH_FAILED", extract_layer |-> extract, inject_layer |-> inject]

\* log_single_patch_result: the event it records
log_single_patch_result(result, extract, inject) ==
    IF ~IsNone(result) /\ result.patch_applied
    THEN [type |-> "PATCH_SUCCESS", extract_layer |-> extract, inject_layer |-> inject]
    ELSE [type |-> "PATCH_FAILED", extract_layer |-> extract, inject_layer |-> inject]

\* --------------------------------------------------------- the sweep loops
NoCalls == [count |-> 0, writes |-> 0, foreign |-> FALSE, qualified |-> FALSE]

\* results.append(result) of the loop body, guarded by `if result:`
AppendResult(rs, result) ==
    IF IsNone(result) THEN rs
    ELSE Append(rs, IF kind = "targeted"
                    THEN [template_type |-> "targeted"] @@ result
                    ELSE result)

NextIndexSkip(k) == k + 2

\* the index of the pair the loop attempts after pair k
NextIndex(k) == k + 1

\* run_single_patch returns `result` to the loop body, which logs and
\* collects it and moves on to the next pair
ReturnToLoop(result, outcome, hks) ==
    /\ hooks' = hks
    /\ attempts' = [attempts EXCEPT ![Len(attempts)].outcome = outcome,
                                    ![Len(attempts)].writes = calls.writes]
    /\ events' = IF kind = "targeted"
                 THEN Append(events,
                             log_single_patch_result(result, extract_layer, inject_layer))
                 ELSE events
    /\ results' = AppendResult(results, result)
    /\ i' = NextIndex(i)
    /\ pc' = IF NextIndex(i) > Len(combinations) THEN "done" ELSE "loop"
    /\ source_repr' = Vec("source", 0, 0)
    /\ patch_position' = 0
    /\ hook_handle' = 0
    /\ calls' = NoCalls
    /\ UNCHANGED <<sweepArgs, analyses, hotspots, offline>>

\* the sweep's setup: everything before its loop
BeginSweep(k, subset, sp, tp, pairs) ==
    /\ pc = "idle"
    /\ kind' = k
    /\ layer_subset' = subset
    /\ source_prompt' = sp
    /\ target_prompt' = tp
    /\ combinations' = pairs
    /\ i' = 1
    /\ results' = <<>>
    /\ events' = <<>>
    /\ attempts' = <<>>
    /\ analyses' = <<>>
    /\ hotspots' = <<>>
    /\ pc' = IF pairs = <<>> THEN "done" ELSE "loop"
    /\ UNCHANGED <<hooks, locals, offline>>

ProductColumnMajor(xs, ys) ==
    [k \in 1..(Len(xs) * Len(ys)) |->
        <<xs[((k - 1) % Len(xs)) + 1], ys[((k - 1) \div Len(xs)) + 1]>>]

\* for e in xs: for j in ys: (e, j)
RECURSIVE Product(_, _)
Product(xs, ys) ==
    IF xs = <<>> THEN <<>>
    ELSE [k \in 1..Len(ys) |-> <<Head(xs), ys[k]>>] \o Product(Tail(xs), ys)

\* layer lists a caller may pass: every single index of LayerInputs, two
\* valid indices, and an invalid index followed by a valid one
LayerLists ==
    {<<l>> : l \in LayerInputs} \cup {<<0, -1>>, <<NumLayers, 0>>}

\* run_layer_range_experiment with caller-supplied layer lists
StartLayerRange ==
    \E sp \in SourcePrompts, tp \in TargetPrompts, xs \in LayerLists, ys \in LayerLists :
        BeginSweep("layer_range", "none", sp, tp, Product(xs, ys))

\* ------------------------------------------------------------- config.py
\* LAYER_CONFIG["total_layers"]
total_layers == 28

\* range(a, b, step) for step > 0, as a list
PyRange(a, b, step) ==
    IF b <= a THEN <<>>
    ELSE [k \in 1..((b - a + step - 1) \div step) |-> a + (k - 1) * step]

early_layers == PyRange(0, 7, 1)

mid_layers == PyRange(7, 21, 1)

late_layers == PyRange(21, 28, 1)

targeted_layers == <<2, 7, 14, 21, 26>>

\* ------------------------------------------------- experiment_runner.py
\* the slice xs[::2]
EveryOther(xs) == [k \in 1..((Len(xs) + 1) \div 2) |-> xs[2 * k - 1]]

\* the layers run_targeted_experiment tests for a layer_subset name
TargetedLayers(subset) ==
    IF subset = "targeted" THEN targeted_layers
    ELSE IF subset = "early" THEN EveryOther(early_layers)
    ELSE IF subset = "mid" THEN EveryOther(mid_layers)
    ELSE IF subset = "late" THEN EveryOther(late_layers)
    ELSE targeted_layers

LayerSubsets == {"targeted", "early", "mid", "late", "all"}

\* run_targeted_experiment
StartTargeted ==
    \E sp \in SourcePrompts, tp \in TargetPrompts, subset \in LayerSubsets :
        BeginSweep("targeted", subset, sp, tp,
                   Product(TargetedLayers(subset), TargetedLayers(subset)))

Min(a, b) == IF a <= b THEN a ELSE b

Max(a, b) == IF a >= b THEN a ELSE b

\* [(extract, inject) for inject in injects]
PairsWith(extract, injects) == [k \in 1..Len(injects) |-> <<extract, injects[k]>>]

DiagonalEveryLayer(total) == [k \in 1..total |-> <<k - 1, k - 1>>]

\* 1. same layer (diagonal)
Diagonal(total) ==
    LET r == PyRange(0, total, Max(1, total \div 10))
    IN  [k \in 1..Len(r) |-> <<r[k], r[k]>>]

\* 2. extract from early, inject to various
RECURSIVE EarlyFan(_, _)
EarlyFan(extracts, total) ==
    IF extracts = <<>> THEN <<>>
    ELSE LET e == Head(extracts)
         IN  PairsWith(e, PyRange(e, Min(e + 15, total), 3))
             \o EarlyFan(Tail(extracts), total)

\* 3. extract from mid, inject to various
RECURSIVE MidFan(_, _)
MidFan(extracts, total) ==
    IF extracts = <<>> THEN <<>>
    ELSE LET e == Head(extracts)
         IN  PairsWith(e, PyRange(Max(0, e - 10), Min(e + 10, total), 3))
             \o MidFan(Tail(extracts), total)

\* 4. extract from late, inject to earlier
RECURSIVE LateFan(_)
LateFan(extracts) ==
    IF extracts = <<>> THEN <<>>
    ELSE LET e == Head(extracts)
         IN  PairsWith(e, PyRange(Max(0, e - 15), e, 3)) \o LateFan(Tail(extracts))

\* the list `combinations` of run_sweep_experiment before deduplication
StrategicCombinations(total) ==
    Diagonal(total) \o EarlyFan(<<2, 5, 8>>, total) \o MidFan(<<12, 16, 20>>, total)
    \o LateFan(<<22, 25>>)

ToSet(xs) == {xs[k] : k \in 1..Len(xs)}

PairLess(a, b) == a[1] < b[1] \/ (a[1] = b[1] /\ a[2] < b[2])

\* the elements of a set of pairs listed in lexicographic order
Ascending(S) ==
    CHOOSE listing \in
        { [r \in 1..Cardinality(S) |-> CHOOSE x \in S : rank[x] = r - 1] :
          rank \in {[x \in S |-> Cardinality({y \in S : PairLess(y, x)})]} } : TRUE

Reverse(xs) == [k \in 1..Len(xs) |-> xs[Len(xs) + 1 - k]]

SetListingsLossy(S) == {Ascending(S), Tail(Ascending(S))}

\* list(set(combinations)): the iteration order of a set is unspecified; the
\* model lets it be the lexicographic order or its reverse
SetListings(S) == {Ascending(S), Reverse(Ascending(S))}

SortBySumAsListed(xs) == xs

\* list.sort(key=lambda x: x[0] + x[1]), a stable sort: the element at index k
\* moves behind the elements of smaller key and the earlier ones of equal key
SortBySum(xs) ==
    LET key(k) == xs[k][1] + xs[k][2]
    IN  CHOOSE sorted \in
            { [r \in 1..Len(xs) |-> xs[CHOOSE k \in 1..Len(xs) : rank[k] = r - 1]] :
              rank \in {[k \in 1..Len(xs) |->
                            Cardinality({j \in 1..Len(xs) :
                                key(j) < key(k) \/ (key(j) = key(k) /\ j < k)})]} } : TRUE

\* floor(log2(a / b)) for positive integers a, b
RECURSIVE Exponent(_, _)
Exponent(a, b) ==
    IF a >= 2 * b THEN 1 + Exponent(a, 2 * b)
    ELSE IF a < b THEN Exponent(2 * a, b) - 1
    ELSE 0

\* (x * 2^t) mod m
RECURSIVE ShiftMod(_, _, _)
ShiftMod(x, t, m) == IF t = 0 THEN x % m ELSE ShiftMod((2 * x) % m, t - 1, m)

RECURSIVE Pow2(_)
Pow2(k) == IF k = 0 THEN 1 ELSE 2 * Pow2(k - 1)

FloorIndex(idx, n, max_count) == (idx * n) \div max_count

\* int(idx * step) with step = n / max_count, both operations in IEEE-754
\* double precision (53-bit significand, round to nearest, ties to even).
\* The product can miss floor(idx*n/max_count) only when idx*n/max_count is an
\* integer m: then the quotient was rounded down by rem / (max_count * 2^t),
\* t = 52 - Exponent(n, max_count), and the product m - idx*rem/(max_count*2^t)
\* rounds to a double below m when it lies more than half a spacing of the
\* doubles below m away from m; int() then gives m - 1.
SpacedIndex(idx, n, max_count) ==
    LET m == (idx * n) \div max_count
        es == Exponent(n, max_count)
        x == ShiftMod(n, 52 - es, 2 * max_count)
        rem == x % max_count
        roundedDown == 2 * rem < max_count \/ (2 * rem = max_count /\ x < max_count)
        em == IF m = 1 THEN -1 ELSE Exponent(m - 1, 1)
        d == em - es
        short == IF d >= 0 THEN 2 * idx * rem > max_count * Pow2(d)
                 ELSE 2 * idx * rem * Pow2(-d) > max_count
    IN  IF idx = 0 \/ (idx * n) % max_count # 0 THEN m
        ELSE IF roundedDown /\ short THEN m - 1
        ELSE m

\* _select_diverse_combinations: for i in range(max_count) the element at
\* int(i * (len / max_count)), when that index exists
select_diverse_combinations(combs, max_count) ==
    LET sorted == SortBySum(combs)
        idxs == [k \in 1..max_count |-> SpacedIndex(k - 1, Len(sorted), max_count)]
        kept == SelectSeq(idxs, LAMBDA idx : idx < Len(sorted))
    IN  [k \in 1..Len(kept) |-> sorted[kept[k] + 1]]

\* the values callers pass for max_combinations (the default and main.py's)
MaxCombinations == {50, 30}

\* run_sweep_experiment
StartSweep ==
    \E sp \in SourcePrompts, tp \in TargetPrompts, max_combinations \in MaxCombinations,
       listed \in SetListings(ToSet(StrategicCombinations(total_layers))) :
        BeginSweep("sweep", "none", sp, tp,
                   IF Len(listed) > max_combinations
                   THEN select_diverse_combinations(listed, max_combinations)
                   ELSE listed)

\* values of LAYER_CONFIG["total_layers"] a deployment may configure
LayerCounts == (total_layers - LayerCountSpread)..(total_layers + LayerCountSpread)

\* the planning part of run_sweep_experiment on its own: the pair list is
\* generated, deduplicated and capped; the configured layer count is the same
\* in every call of one process
PlanSweep ==
    /\ pc = "idle"
    /\ Len(plans) < MaxPlans
    /\ \E total \in IF plans = <<>> THEN LayerCounts ELSE {plans[1].total_layers},
          max_combinations \in MaxCombinations :
         \E listed \in SetListings(ToSet(StrategicCombinations(total))) :
            plans' = Append(plans,
                            [total_layers |-> total,
                             generated |-> StrategicCombinations(total),
                             unique |-> listed,
                             max_combinations |-> max_combinations,
                             combinations |->
                                 IF Len(listed) > max_combinations
                                 THEN select_diverse_combinations(listed, max_combinations)
                                 ELSE listed])
    /\ UNCHANGED <<hooks, pc, sweepArgs, i, results, events, locals, attempts,
                   analyses, hotspots, selected, inflight>>

\* _select_diverse_combinations called on the first n pairs of a listing of
\* the strategic pair set; the sort is in place, so the caller's list is
\* sorted afterwards
SelectDiverse ==
    /\ pc = "idle"
    /\ selected = <<>>
    /\ \E listed \in SetListings(ToSet(StrategicCombinations(total_layers))) :
         \E n \in 1..MaxListLen, max_count \in 1..(MaxListLen + 1) :
            /\ max_count <= n + 1
            /\ LET combs == SubSeq(listed, 1, n)
               IN  selected' = <<[combinations |-> combs,
                                  max_count |-> max_count,
                                  combinations_after |-> SortBySum(combs),
                                  returned |-> select_diverse_combinations(combs, max_count)]>>
    /\ UNCHANGED <<hooks, pc, sweepArgs, i, results, events, locals, attempts,
                   analyses, hotspots, plans, inflight>>

\* the loop calls run_single_patch for the next pair
CallRunSinglePatch ==
    /\ pc = "loop"
    /\ pc' = "extract"
    /\ attempts' = Append(attempts, [extract_layer |-> extract_layer,
                                     inject_layer |-> inject_layer,
                                     outcome |-> "running",
                                     writes |-> 0])
    /\ UNCHANGED <<hooks, sweepArgs, i, results, events, locals, analyses, hotspots, offline>>

\* step 1 of run_single_patch
ExtractRepresentation ==
    /\ pc = "extract"
    /\ LET r == extract_representation(hooks, source_prompt, extract_layer)
       IN  IF r.raised
           THEN ReturnToLoop(None, "extract_error", r.hooks)
           ELSE /\ source_repr' = r.representation
                /\ hooks' = r.hooks
                /\ calls' = [calls EXCEPT !.foreign = @ \/ r.wrote # <<>>]
                /\ pc' = "locate"
                /\ UNCHANGED <<sweepArgs, i, results, events, patch_position,
                               hook_handle, attempts, analyses, hotspots, offline>>

\* step 2 of run_single_patch
FindPatchPosition ==
    /\ pc = "locate"
    /\ LET r == find_patch_position(target_prompt)
       IN  IF ~r.found
           THEN ReturnToLoop(None, "marker_not_found", hooks)
           ELSE /\ patch_position' = r.index
                /\ pc' = "arm"
                /\ UNCHANGED <<hooks, sweepArgs, i, results, events, source_repr,
                               hook_handle, calls, attempts, analyses, hotspots, offline>>

\* steps 3 to 6 of run_single_patch, up to register_forward_hook
ArmHook ==
    /\ pc = "arm"
    /\ IF ~InjectLayerAccepted(inject_layer)
       THEN ReturnToLoop(None, "inject_rejected", hooks)
       ELSE IF ~PyIndexOK(inject_layer, NumLayers)
       THEN ReturnToLoop(None, "inject_error", hooks)
       ELSE /\ hooks' = RegisterForwardHook(hooks, PyIndex(inject_layer, NumLayers),
                                            patch_position, source_repr)
            /\ hook_handle' = FreshHandle(hooks)
            /\ pc' = "generate"
            /\ UNCHANGED <<sweepArgs, i, results, events, source_repr, patch_position,
                           calls, attempts, analyses, hotspots, offline>>

\* sequence lengths of a forward pass inside generate: one new token (cached
\* decoding), the whole prompt, or the prompt with the tokens generated so far
SeqLens == {1, Len(target_prompt.tokens), Len(target_prompt.tokens) + calls.count}

\* one forward pass inside model.generate: the hooks run
HookInvocation ==
    /\ pc = "generate"
    /\ calls.count < MaxCalls
    /\ \E n \in SeqLens, isTuple \in BOOLEAN :
         LET fwd == Forward(hooks, "target", n, isTuple)
             own == CHOOSE k \in 1..Len(hooks) : hooks[k].handle = hook_handle
             layer == hooks[own].layer
             mine == SelectSeq(fwd.wrote, LAMBDA h : h = hook_handle)
         IN  /\ hooks' = fwd.hooks
             /\ calls' = [count |-> calls.count + 1,
                          writes |-> calls.writes + Len(mine),
                          foreign |-> calls.foreign \/ Len(mine) # Len(fwd.wrote),
                          qualified |-> calls.qualified \/ n > patch_position,
                          len |-> n,
                          before |-> hooks[own].patch_applied,
                          natural |-> LayerOutput("target", layer, n, isTuple),
                          returned |-> fwd.outs[layer]]
    /\ UNCHANGED <<pc, sweepArgs, i, results, events, source_repr, patch_position,
                   hook_handle, attempts, analyses, hotspots, offline>>

OnGenerateErrorRecorded(applied) == PatchResult(FALSE, <<>>)

\* what run_single_patch returns when the guarded section raised
OnGenerateError(applied) == None

HooksAfterRaiseNoFinally(hks, handle) == hks

\* the hooks left when the guarded section raised: the finally clause ran
HooksAfterRaise(hks, handle) == HandleRemove(hks, handle)

\* generate, or the decoding of its output, raises: the finally clause
\* removes the hook and the outer handler returns None
GenerateRaises ==
    /\ pc = "generate"
    /\ ReturnToLoop(OnGenerateError(patch_applied), "generate_error",
                    HooksAfterRaise(hooks, hook_handle))

\* generate returns, the result dict is built, the finally clause removes
\* the hook
GenerateReturns ==
    /\ pc = "generate"
    /\ calls.count >= 1
    /\ \E c \in Continuations :
         ReturnToLoop(PatchResult(patch_applied, target_prompt.text \o c), "result",
                      HandleRemove(hooks, hook_handle))

\* ---------------------------------------------------------- analysis.py
\* PROMPTS["analysis_keywords"]["George Washington"]
GeorgeWashingtonKeywords ==
    << <<112, 114, 101, 115, 105, 100, 101, 110, 116>>,
       <<102, 105, 114, 115, 116>>,
       <<117, 110, 105, 116, 101, 100, 32, 115, 116, 97, 116, 101, 115>>,
       <<97, 109, 101, 114, 105, 99, 97>>,
       <<119, 97, 115, 104, 105, 110, 103, 116, 111, 110>>,
       <<102, 111, 117, 110, 100, 105, 110, 103, 32, 102, 97, 116, 104, 101, 114>>,
       <<103, 101, 110, 101, 114, 97, 108>> >>

expected_keywordsNameAsIs(source) ==
    IF source = GeorgeWashington THEN GeorgeWashingtonKeywords ELSE <<source>>

\* PROMPTS["analysis_keywords"].get(source_prompt, [source_prompt.lower()]),
\* for the entities of SourcePrompts
expected_keywords(source) ==
    IF source = GeorgeWashington THEN GeorgeWashingtonKeywords ELSE <<Lower(source)>>

\* sum(1 for keyword in expected_keywords if keyword in new_text_lower)
MatchCount(keywords, new_tokens) ==
    Cardinality({k \in 1..Len(keywords) : Contains(Lower(new_tokens), keywords[k])})

\* the list of `analysis` a match count selects
BucketForStrict(matches) ==
    IF matches > strong_match THEN "strong_matches"
    ELSE IF matches > partial_match THEN "partial_matches"
    ELSE "weak_matches"

BucketFor(matches) ==
    IF matches >= strong_match THEN "strong_matches"
    ELSE IF matches >= partial_match THEN "partial_matches"
    ELSE "weak_matches"

\* the list of `analysis` the loop body appends a result to
Bucket(result, keywords) ==
    IF ~result.patch_applied THEN "failed_patches"
    ELSE BucketFor(MatchCount(keywords, result.new_tokens))

EmptyBuckets ==
    [strong_matches |-> <<>>, partial_matches |-> <<>>, weak_matches |-> <<>>,
     failed_patches |-> <<>>]

StartingBucketsShared(previous) ==
    IF previous = <<>> \/ "error" \in DOMAIN previous[Len(previous)] THEN EmptyBuckets
    ELSE [b \in DOMAIN EmptyBuckets |-> previous[Len(previous)][b]]

\* the dict `analysis` is created with four empty lists in every call,
\* whatever earlier calls returned
StartingBuckets(previous) == EmptyBuckets

RECURSIVE CategorizeFallThrough(_, _, _)
CategorizeFallThrough(buckets, rs, keywords) ==
    IF rs = <<>> THEN buckets
    ELSE LET result == Head(rs)
             text == BucketFor(MatchCount(keywords, result.new_tokens))
             failed == IF result.patch_applied THEN buckets
                       ELSE [buckets EXCEPT !.failed_patches = Append(@, result)]
         IN  CategorizeFallThrough([failed EXCEPT ![text] = Append(@, result)],
                                   Tail(rs), keywords)

\* the loop  for result in results
RECURSIVE Categorize(_, _, _)
Categorize(buckets, rs, keywords) ==
    IF rs = <<>> THEN buckets
    ELSE Categorize([buckets EXCEPT ![Bucket(Head(rs), keywords)] = Append(@, Head(rs))],
                    Tail(rs), keywords)

\* analyze_results; `previous` are the outputs of the analyzer's earlier calls
analyze_results(rs, source, previous) ==
    IF rs = <<>> THEN [error |-> "No results to analyze"]
    ELSE LET keywords == expected_keywords(source)
             buckets == Categorize(StartingBuckets(previous), rs, keywords)
         IN  [strong_matches |-> buckets.strong_matches,
              partial_matches |-> buckets.partial_matches,
              weak_matches |-> buckets.weak_matches,
              failed_patches |-> buckets.failed_patches,
              summary |->
                [total_experiments |-> Len(rs),
                 successful_patches |-> Len(rs) - Len(buckets.failed_patches),
                 strong_match_count |-> Len(buckets.strong_matches),
                 partial_match_count |-> Len(buckets.partial_matches),
                 weak_match_count |-> Len(buckets.weak_matches),
                 expected_keywords |-> keywords]]

\* the result collection after analyze_results read it
ResultsAfterAnalysis(rs) == rs

\* the caller analyzes the finished sweep's results
AnalyzeResults ==
    /\ pc = "done"
    /\ Len(analyses) < MaxAnalyses
    /\ analyses' = Append(analyses, analyze_results(results, source_prompt, analyses))
    /\ results' = ResultsAfterAnalysis(results)
    /\ UNCHANGED <<hooks, pc, sweepArgs, i, events, locals, attempts, hotspots, offline>>

\* print_analysis_summary reads analysis["summary"] and the bucket lists: a
\* dict without them makes it raise KeyError
print_analysis_summary(analysis) ==
    [raised |-> ~({"summary", "strong_matches", "partial_matches", "weak_matches"}
                    \subseteq DOMAIN analysis)]

\* the keys of a defaultdict(int) filled by counting xs in order: a dict
\* keeps its keys in insertion order, the order of first occurrence
InsertionOrder(xs) ==
    LET firsts == {k \in 1..Len(xs) : \A j \in 1..(k - 1) : xs[j] # xs[k]}
    IN  [r \in 1..Cardinality(firsts) |->
            xs[CHOOSE k \in firsts : Cardinality({j \in firsts : j < k}) = r - 1]]

\* counts.items() after the counting loop: (key, count) in insertion order
CountItems(xs) ==
    LET keys == InsertionOrder(xs)
    IN  [r \in 1..Len(keys) |->
            <<keys[r], Cardinality({k \in 1..Len(xs) : xs[k] = keys[r]})>>]

SortedByCountTiesReversed(items) ==
    LET rank(k) == Cardinality({j \in 1..Len(items) :
                       items[j][2] > items[k][2]
                       \/ (items[j][2] = items[k][2] /\ j > k)})
    IN  [r \in 1..Len(items) |-> items[CHOOSE k \in 1..Len(items) : rank(k) = r - 1]]

\* sorted(items, key=lambda x: x[1], reverse=True): a stable sort, and
\* reverse=True keeps the items of equal count in their original order
SortedByCount(items) ==
    LET rank(k) == Cardinality({j \in 1..Len(items) :
                       items[j][2] > items[k][2]
                       \/ (items[j][2] = items[k][2] /\ j < k)})
    IN  [r \in 1..Len(items) |-> items[CHOOSE k \in 1..Len(items) : rank(k) = r - 1]]

\* the slice xs[:n]
Take(xs, n) == SubSeq(xs, 1, Min(n, Len(xs)))

\* min(xs), max(xs) of a non-empty list of layers
ListMin(xs) == CHOOSE x \in ToSet(xs) : \A y \in ToSet(xs) : x <= y

ListMax(xs) == CHOOSE x \in ToSet(xs) : \A y \in ToSet(xs) : x >= y

\* find_knowledge_hotspots
find_knowledge_hotspots(analysis) ==
    IF "strong_matches" \notin DOMAIN analysis THEN [raised |-> "KeyError"]
    ELSE LET strong_results == analysis.strong_matches
             extract_layers == [k \in 1..Len(strong_results) |->
                                   strong_results[k].extract_layer]
             inject_layers == [k \in 1..Len(strong_results) |->
                                  strong_results[k].inject_layer]
             pairs == [k \in 1..Len(strong_results) |->
                          <<extract_layers[k], inject_layers[k]>>]
         IN  IF strong_results = <<>> THEN [message |-> "No strong matches found"]
             ELSE [best_extract_layers |->
                       Take(SortedByCount(CountItems(extract_layers)), 5),
                   best_inject_layers |->
                       Take(SortedByCount(CountItems(inject_layers)), 5),
                   best_layer_pairs |-> Take(SortedByCount(CountItems(pairs)), 10),
                   extract_range |-> <<ListMin(extract_layers), ListMax(extract_layers)>>,
                   inject_range |-> <<ListMin(inject_layers), ListMax(inject_layers)>>]

\* the rest of a study's analysis pipeline for one analysis:
\* print_analysis_summary, then find_knowledge_hotspots
StudyHotspots(analysis) ==
    IF print_analysis_summary(analysis).raised THEN [raised |-> "KeyError"]
    ELSE find_knowledge_hotspots(analysis)

\* the study goes on from an analysis to the hotspots
FindKnowledgeHotspots ==
    /\ pc = "done"
    /\ Len(hotspots) < Len(analyses)
    /\ hotspots' = Append(hotspots, StudyHotspots(analyses[Len(hotspots) + 1]))
    /\ UNCHANGED <<hooks, pc, sweepArgs, i, results, events, locals, attempts,
                   analyses, offline>>

\* the caller is done with the sweep and drops its results; the model, with
\* whatever is registered on it, stays loaded for the next sweep
Reset ==
    /\ pc = "done"
    /\ pc' = "idle"
    /\ kind' = "none"
    /\ layer_subset' = "none"
    /\ source_prompt' = <<>>
    /\ target_prompt' = [text |-> <<>>, tokens |-> <<>>]
    /\ combinations' = <<>>
    /\ i' = 1
    /\ results' = <<>>
    /\ events' = <<>>
    /\ attempts' = <<>>
    /\ analyses' = <<>>
    /\ hotspots' = <<>>
    /\ UNCHANGED <<hooks, locals, offline>>

Init ==
    /\ hooks = <<>>
    /\ pc = "idle"
    /\ kind = "none"
    /\ layer_subset = "none"
    /\ source_prompt = <<>>
    /\ target_prompt = [text |-> <<>>, tokens |-> <<>>]
    /\ combinations = <<>>
    /\ i = 1
    /\ results = <<>>
    /\ events = <<>>
    /\ source_repr = Vec("source", 0, 0)
    /\ patch_position = 0
    /\ hook_handle = 0
    /\ calls = NoCalls
    /\ attempts = <<>>
    /\ analyses = <<>>
    /\ hotspots = <<>>
    /\ plans = <<>>
    /\ selected = <<>>
    /\ inflight = <<>>

Next ==
    \/ StartLayerRange
    \/ StartTargeted
    \/ StartSweep
    \/ CallRunSinglePatch
    \/ ExtractRepresentation
    \/ FindPatchPosition
    \/ ArmHook
    \/ HookInvocation
    \/ GenerateRaises
    \/ GenerateReturns
    \/ AnalyzeResults
    \/ FindKnowledgeHotspots
    \/ Reset

Spec == Init /\ [][Next]_vars

\* ------------------------------------------ the planning steps on their own
NextPlanner == PlanSweep

SpecPlanner == Init /\ [][NextPlanner]_vars

NextSelect == SelectDiverse

SpecSelect == Init /\ [][NextSelect]_vars

\* ------------------------------------------ the classifier on its own
\* generated suffixes: "the first president of the United States",
\* "a general", "Rome" and the empty suffix
SampleSuffixes ==
    { <<116, 104, 101, 32, 102, 105, 114, 115, 116, 32, 112, 114, 101, 115,
        105, 100, 101, 110, 116, 32, 111, 102, 32, 116, 104, 101, 32, 85, 110,
        105, 116, 101, 100, 32, 83, 116, 97, 116, 101, 115>>,
      <<97, 32, 103, 101, 110, 101, 114, 97, 108>>,
      <<82, 111, 109, 101>>,
      <<>> }

\* results run_single_patch can have returned for the prompt "?:"
SampleResults ==
    { [extract_layer |-> pair[1], inject_layer |-> pair[2], patch_applied |-> applied,
       generated_text |-> <<63, 58, 32>> \o suffix, new_tokens |-> suffix,
       source_prompt |-> GeorgeWashington, target_prompt |-> <<63, 58>>,
       patch_position |-> 0] :
      pair \in {<<14, 21>>, <<7, 21>>}, applied \in BOOLEAN, suffix \in SampleSuffixes }

\* a caller holds a result collection and the entity to classify it for
InitClassifier ==
    /\ hooks = <<>>
    /\ pc = "done"
    /\ kind = "none"
    /\ layer_subset = "none"
    /\ source_prompt \in SourcePrompts
    /\ target_prompt = [text |-> <<>>, tokens |-> <<>>]
    /\ combinations = <<>>
    /\ i = 1
    /\ results \in UNION {[1..n -> SampleResults] : n \in 0..MaxResults}
    /\ events = <<>>
    /\ source_repr = Vec("source", 0, 0)
    /\ patch_position = 0
    /\ hook_handle = 0
    /\ calls = NoCalls
    /\ attempts = <<>>
    /\ analyses = <<>>
    /\ hotspots = <<>>
    /\ plans = <<>>
    /\ selected = <<>>
    /\ inflight = <<>>

NextClassifier == AnalyzeResults \/ FindKnowledgeHotspots

SpecClassifier == InitClassifier /\ [][NextClassifier]_vars

\* ------------------------------------------ the aggregator on its own
\* the suffix "first president", a strong match for George Washington
StrongSuffix ==
    <<102, 105, 114, 115, 116, 32, 112, 114, 101, 115, 105, 100, 101, 110, 116>>

\* the result run_single_patch returns for a pair of a sweep over the prompt
\* "?:" when the patch was applied and the model generated `suffix`
SweepResult(pair, suffix) ==
    [extract_layer |-> pair[1], inject_layer |-> pair[2], patch_applied |-> TRUE,
     generated_text |-> <<63, 58, 32>> \o suffix, new_tokens |-> suffix,
     source_prompt |-> GeorgeWashington, target_prompt |-> <<63, 58>>,
     patch_position |-> 0]

\* the first pairs of the strategic sweep, in lexicographic order
HotspotPairs ==
    SubSeq(Ascending(ToSet(StrategicCombinations(total_layers))), 1, MaxHotspotPairs)

\* the results of one pass of the sweep over HotspotPairs in which the
\* pairs at the indices `strong` produced a strong match
SweepPass(strong) ==
    [k \in 1..Len(HotspotPairs) |->
        SweepResult(HotspotPairs[k], IF k \in strong THEN StrongSuffix ELSE <<>>)]

\* the sets of at most m indices of HotspotPairs
FewOf(m) == {S \in SUBSET (1..Len(HotspotPairs)) : Cardinality(S) <= m}

\* a study collected the results of two passes of the sweep (one per target
\* template): the first with at most MaxWeak results that are not strong, the
\* second with at most one strong result
InitHotspots ==
    /\ hooks = <<>>
    /\ pc = "done"
    /\ kind = "none"
    /\ layer_subset = "none"
    /\ source_prompt = GeorgeWashington
    /\ target_prompt = [text |-> <<>>, tokens |-> <<>>]
    /\ combinations = <<>>
    /\ i = 1
    /\ \E weak \in FewOf(MaxWeak), again \in FewOf(1) :
         results = SweepPass((1..Len(HotspotPairs)) \ weak) \o SweepPass(again)
    /\ events = <<>>
    /\ source_repr = Vec("source", 0, 0)
    /\ patch_position = 0
    /\ hook_handle = 0
    /\ calls = NoCalls
    /\ attempts = <<>>
    /\ analyses = <<>>
    /\ hotspots = <<>>
    /\ plans = <<>>
    /\ selected = <<>>
    /\ inflight = <<>>

NextHotspots == AnalyzeResults \/ FindKnowledgeHotspots

SpecHotspots == InitHotspots /\ [][NextHotspots]_vars

\* ------------------------------------------ two callers on one model
\* the requests two concurrent callers of run_single_patch have in flight
Requests == {1, 2}

Other(t) == 3 - t

\* the variables of the sequential sweeps
sequential == <<pc, sweepArgs, i, results, events, locals, attempts, analyses,
                hotspots, plans, selected>>

\* target prompts in which find_patch_position finds the marker
MarkedPrompts == {tp \in TargetPrompts : find_patch_position(tp).found}

\* the locals of a request that has run steps 1 to 4 of run_single_patch
\* while no hook was registered, and its bookkeeping: the pass it is in, the
\* hooks that pass has still to run, the value of patch_applied the hook it
\* is inside has read, how often its own generate call had its marker
\* position overwritten, and how often its own hook has written
Request(sp, tp, inject) ==
    [pc |-> "arm",
     inject_layer |-> inject,
     patch_position |-> find_patch_position(tp).index,
     source_repr |-> extract_representation(<<>>, sp, 0).representation,
     tokens |-> Len(tp.tokens),
     hook_handle |-> 0,
     count |-> 0,
     len |-> 0,
     pending |-> <<>>,
     running |-> None,
     owner |-> 0,
     seen |-> FALSE,
     overwrites |-> 0,
     fired |-> 0,
     overlapped |-> FALSE]

\* the request's hook is on the model
Registered(t) == inflight[t].pc \in {"generate", "forward", "hook"}

InitConcurrent ==
    /\ hooks = <<>>
    /\ pc = "idle"
    /\ kind = "none"
    /\ layer_subset = "none"
    /\ source_prompt = <<>>
    /\ target_prompt = [text |-> <<>>, tokens |-> <<>>]
    /\ combinations = <<>>
    /\ i = 1
    /\ results = <<>>
    /\ events = <<>>
    /\ source_repr = Vec("source", 0, 0)
    /\ patch_position = 0
    /\ hook_handle = 0
    /\ calls = NoCalls
    /\ attempts = <<>>
    /\ analyses = <<>>
    /\ hotspots = <<>>
    /\ plans = <<>>
    /\ selected = <<>>
    /\ \E l1, l2 \in 0..(NumLayers - 1), tp1, tp2 \in MarkedPrompts :
         inflight = <<Request(GeorgeWashington, tp1, l1), Request(Rome, tp2, l2)>>

\* steps 5 and 6 up to register_forward_hook: the closure starts with
\* patch_applied = False
Register(t) ==
    /\ inflight[t].pc = "arm"
    /\ hooks' = RegisterForwardHook(hooks, inflight[t].inject_layer,
                                    inflight[t].patch_position, inflight[t].source_repr)
    /\ inflight' = [u \in Requests |->
                      IF u = t
                      THEN [inflight[t] EXCEPT !.pc = "generate",
                                               !.hook_handle = FreshHandle(hooks),
                                               !.overlapped = Registered(Other(t))]
                      ELSE [inflight[u] EXCEPT !.overlapped = @ \/ Registered(u)]]
    /\ UNCHANGED sequential

\* generate starts a forward pass of the model: the hooks on its layers
BeginForward(t) ==
    /\ inflight[t].pc = "generate"
    /\ inflight[t].count < MaxCalls
    /\ \E n \in {1, inflight[t].tokens} :
         inflight' = [inflight EXCEPT ![t].pc = "forward",
                                      ![t].len = n,
                                      ![t].pending = [k \in 1..Len(hooks) |->
                                                         hooks[k].handle]]
    /\ UNCHANGED <<hooks, sequential>>

\* the pass reaches a hook: one removed in the meantime is not called; a
\* called one reads patch_applied in the test of its if statement
HookEnter(t) ==
    /\ inflight[t].pc = "forward"
    /\ inflight[t].pending # <<>>
    /\ LET h == Head(inflight[t].pending)
           at == {k \in 1..Len(hooks) : hooks[k].handle = h}
       IN  IF at = {}
           THEN inflight' = [inflight EXCEPT ![t].pending = Tail(@)]
           ELSE LET hook == hooks[CHOOSE k \in at : TRUE]
                IN  inflight' =
                      [inflight EXCEPT
                          ![t].pc = "hook",
                          ![t].running = hook,
                          ![t].owner = CHOOSE u \in Requests :
                                           Registered(u) /\ inflight[u].hook_handle = h,
                          ![t].seen = hook.patch_applied]
    /\ UNCHANGED <<hooks, sequential>>

\* the rest of the hook: with the value of patch_applied it read, it
\* overwrites the marker position and sets patch_applied, or does neither
HookBody(t) ==
    /\ inflight[t].pc = "hook"
    /\ LET hook == inflight[t].running
           r == patching_hook(LayerOutput("target", hook.layer, inflight[t].len, TRUE),
                              hook.patch_position, hook.source_repr, inflight[t].seen)
           own == hook.layer = inflight[t].inject_layer
                  /\ hook.patch_position = inflight[t].patch_position
       IN  /\ hooks' = [k \in 1..Len(hooks) |->
                          IF hooks[k].handle = hook.handle
                          THEN [hooks[k] EXCEPT !.patch_applied = @ \/ r.patch_applied]
                          ELSE hooks[k]]
           /\ inflight' =
                [u \in Requests |->
                    LET wrote == IF u = inflight[t].owner /\ r.wrote THEN 1 ELSE 0
                    IN  IF u = t
                        THEN [inflight[u] EXCEPT
                                 !.pc = "forward",
                                 !.pending = Tail(@),
                                 !.overwrites = @ + (IF r.wrote /\ own THEN 1 ELSE 0),
                                 !.fired = @ + wrote]
                        ELSE [inflight[u] EXCEPT !.fired = @ + wrote]]
    /\ UNCHANGED sequential

\* the forward pass is through
EndForward(t) ==
    /\ inflight[t].pc = "forward"
    /\ inflight[t].pending = <<>>
    /\ inflight' = [inflight EXCEPT ![t].pc = "generate", ![t].count = @ + 1]
    /\ UNCHANGED <<hooks, sequential>>

\* generate returns or raises and the finally clause removes the hook
Deregister(t) ==
    /\ inflight[t].pc = "generate"
    /\ hooks' = HandleRemove(hooks, inflight[t].hook_handle)
    /\ inflight' = [inflight EXCEPT ![t].pc = "done"]
    /\ UNCHANGED sequential

NextConcurrent ==
    \E t \in Requests :
        \/ Register(t)
        \/ BeginForward(t)
        \/ HookEnter(t)
        \/ HookBody(t)
        \/ EndForward(t)
        \/ Deregister(t)

SpecConcurrent == InitConcurrent /\ [][NextConcurrent]_vars

\* ================================================================ claims
InRange(layer) == 0 <= layer /\ layer < NumLayers

InRequest == pc \in {"extract", "locate", "arm", "generate"}

\* C1: within one request the marker position is overwritten with the source
\* vector at most once however often the hook runs, exactly once as soon as
\* one forward pass was long enough to contain the marker position, the firing
\* invocation puts the source vector there, and every invocation after the
\* firing one returns the layer output as it received it.
C1_AtMostOnce ==
    /\ calls.writes <= 1
    /\ calls.qualified => calls.writes = 1
    /\ calls.count > 0 =>
         /\ calls.before => calls.returned = calls.natural
         /\ (~calls.before /\ calls.len > patch_position) =>
              /\ calls.returned.hidden_states[patch_position + 1] = source_repr
              /\ patch_applied
         /\ (~calls.before /\ calls.len <= patch_position) =>
              calls.returned = calls.natural

\* a second invocation that reaches the marker position, after the firing one
C1_Witness ==
    /\ pc = "generate"
    /\ calls.count = 2
    /\ calls.before
    /\ calls.len > patch_position
    /\ calls.writes = 1

\* C2: a hook is registered on the model only while a request is inside its
\* guarded generate call, and then it is that request's own hook alone: after
\* every exit of run_single_patch, an exception in generate included, no hook
\* is left, and no forward pass of a request is modified by another request's
\* hook.
C2_Teardown ==
    /\ pc # "generate" => hooks = <<>>
    /\ pc = "generate" => Len(hooks) = 1 /\ hooks[1].handle = hook_handle
    /\ ~calls.foreign
    /\ source_repr.run = "source"

\* a request is generating after an earlier request of the sweep failed
\* inside generate
C2_Witness ==
    /\ pc = "generate"
    /\ calls.count >= 1
    /\ \E k \in 1..Len(attempts) : attempts[k].outcome = "generate_error"

\* C3 (as claimed): every returned result has its extract and inject layer
\* in [0, total layers), and a request with a layer outside that range never
\* gets a hook armed.
C3_LayersInRange ==
    /\ \A k \in 1..Len(results) :
         InRange(results[k].extract_layer) /\ InRange(results[k].inject_layer)
    /\ pc = "generate" => InRange(extract_layer) /\ InRange(inject_layer)

\* C4 (as claimed): while a request with an out-of-range inject layer runs,
\* no hook is registered and generate is not called.
C4_RejectedBeforeArming ==
    (InRequest /\ ~InRange(inject_layer)) =>
        /\ hooks = <<>>
        /\ pc # "generate"
        /\ calls.count = 0

Pair(r) == <<r.extract_layer, r.inject_layer>>

Ended(outcome) == {k \in 1..Len(attempts) : attempts[k].outcome = outcome}

\* C5 (as claimed): every request whose generate call failed is in the result
\* collection with patch_applied = false.
C5_FailureRecorded ==
    \A k \in Ended("generate_error") :
        \E j \in 1..Len(results) :
            Pair(results[j]) = Pair(attempts[k]) /\ ~results[j].patch_applied

\* C5 (amended): a failure inside the guarded generate call is not propagated
\* and not recorded as a result either: run_single_patch returns None, the
\* result collection holds exactly the requests that returned a result, and the
\* failed request shows only as the targeted sweep's PATCH_FAILED event.
C5_FailureNotRecorded ==
    /\ Len(results) = Cardinality(Ended("result"))
    /\ \A k \in Ended("generate_error") :
         /\ \A j \in 1..Len(results) : Pair(results[j]) # Pair(attempts[k])
         /\ kind = "targeted" =>
              events[k] = [type |-> "PATCH_FAILED",
                           extract_layer |-> attempts[k].extract_layer,
                           inject_layer |-> attempts[k].inject_layer]
    /\ pc \in {"loop", "done"} => hooks = <<>>

\* a targeted sweep went on to its end after a request failed inside generate
C5_Witness ==
    /\ kind = "targeted"
    /\ pc = "done"
    /\ Ended("generate_error") # {}

HasMarker(prompt) == Contains(prompt.text, <<63>>)

\* C6: while a sweep runs on a target prompt without the marker, no request
\* gets past the position lookup: no hook is registered, generate is not
\* called, the result collection stays empty, and the analysis of the sweep
\* has no bucket the request could be in.
C6_MarkerAbsent ==
    (pc # "idle" /\ ~HasMarker(target_prompt)) =>
        /\ results = <<>>
        /\ hooks = <<>>
        /\ pc \notin {"arm", "generate"}
        /\ calls.count = 0
        /\ \A k \in 1..Len(attempts) :
             attempts[k].outcome \in {"running", "extract_error", "marker_not_found"}
        /\ \A k \in 1..Len(analyses) : DOMAIN analyses[k] = {"error"}

\* a sweep whose requests were skipped has ended and was analyzed
C6_Witness ==
    /\ pc = "done"
    /\ Ended("marker_not_found") # {}
    /\ analyses # <<>>

\* C7 (as claimed): the per-attempt event of a request skipped for a missing
\* marker does not record it as failed.
C7_SkipNotLoggedAsFailure ==
    kind = "targeted" =>
        \A k \in Ended("marker_not_found") : events[k].type # "PATCH_FAILED"

\* C7 (amended): a request skipped for a missing marker is in no result
\* collection, and it is not accounted separately from failures: the targeted
\* sweep's logger records for it the PATCH_FAILED event it records for every
\* request without an applied patch.
C7_SkipLoggedAsFailure ==
    \A k \in Ended("marker_not_found") :
        /\ \A j \in 1..Len(results) : Pair(results[j]) # Pair(attempts[k])
        /\ kind = "targeted" =>
             events[k] = [type |-> "PATCH_FAILED",
                          extract_layer |-> attempts[k].extract_layer,
                          inject_layer |-> attempts[k].inject_layer]

\* the logger of a targeted sweep recorded a skipped request
C7_Witness ==
    /\ kind = "targeted"
    /\ Len(events) >= 2
    /\ attempts[1].outcome = "marker_not_found"

ResultAttempts == SelectSeq(attempts, LAMBDA a : a.outcome = "result")

\* C8: a sweep attempts its pairs one at a time in list order, each once,
\* whatever the earlier requests returned; only the last attempt can be
\* running; the sweep is done after as many attempts as there are pairs; and
\* the results are those of the attempts that returned one, in attempt order.
C8_SweepSequential ==
    pc # "idle" =>
        /\ Len(attempts) <= Len(combinations)
        /\ \A k \in 1..Len(attempts) : Pair(attempts[k]) = combinations[k]
        /\ \A k \in 1..Len(attempts) :
             attempts[k].outcome = "running" <=> (k = Len(attempts) /\ InRequest)
        /\ InRequest => Len(attempts) = i
        /\ pc = "loop" => Len(attempts) = i - 1 /\ i <= Len(combinations)
        /\ pc = "done" => Len(attempts) = Len(combinations)
        /\ Len(results) = Len(ResultAttempts)
        /\ \A j \in 1..Len(results) : Pair(results[j]) = Pair(ResultAttempts[j])

\* a sweep ended in which a request returned a result after an earlier one
\* had failed inside generate and another had been rejected
C8_Witness ==
    /\ pc = "done"
    /\ \E j, k \in 1..Len(attempts) :
         /\ j < k
         /\ attempts[j].outcome = "generate_error"
         /\ attempts[k].outcome = "result"
    /\ Ended("extract_error") # {}

BucketNames == {"strong_matches", "partial_matches", "weak_matches", "failed_patches"}

\* the number of keywords that are substrings of the lowercased suffix
ClaimedMatchCount(keywords, suffix) ==
    Cardinality({k \in 1..Len(keywords) :
        \E at \in 1..(Len(suffix) + 1) :
            /\ at + Len(keywords[k]) - 1 <= Len(suffix)
            /\ \A c \in 1..Len(keywords[k]) :
                 LowerChar(suffix[at + c - 1]) = keywords[k][c]})

\* the bucket the claim gives a result
ClaimedBucket(r, keywords) ==
    IF r.patch_applied = FALSE THEN "failed_patches"
    ELSE IF ClaimedMatchCount(keywords, r.new_tokens) >= 2 THEN "strong_matches"
    ELSE IF ClaimedMatchCount(keywords, r.new_tokens) >= 1 THEN "partial_matches"
    ELSE "weak_matches"

\* president, united states, washington
ExampleKeywords ==
    << <<112, 114, 101, 115, 105, 100, 101, 110, 116>>,
       <<117, 110, 105, 116, 101, 100, 32, 115, 116, 97, 116, 101, 115>>,
       <<119, 97, 115, 104, 105, 110, 103, 116, 111, 110>> >>

\* the first president of the United States
ExampleSuffix ==
    <<116, 104, 101, 32, 102, 105, 114, 115, 116, 32, 112, 114, 101, 115,
      105, 100, 101, 110, 116, 32, 111, 102, 32, 116, 104, 101, 32, 85, 110,
      105, 116, 101, 100, 32, 83, 116, 97, 116, 101, 115>>

\* C9: every analysis of a non-empty collection puts the results without an
\* applied patch in failed_patches and every other result in the bucket its
\* count of matching keywords selects (strong from 2, partial from 1, else
\* weak), keeping the collection's order; and the keywords president, united
\* states, washington match the suffix "the first president of the United
\* States" twice, which is a strong match.
C9_Classification ==
    /\ \A k \in 1..Len(analyses) :
         results # <<>> =>
            \A b \in BucketNames :
                analyses[k][b] =
                    SelectSeq(results,
                              LAMBDA r : ClaimedBucket(r, expected_keywords(source_prompt)) = b)
    /\ MatchCount(ExampleKeywords, ExampleSuffix) = 2
    /\ BucketFor(MatchCount(ExampleKeywords, ExampleSuffix)) = "strong_matches"

\* an analysis with a strong match and a failed patch
C9_Witness ==
    /\ analyses # <<>>
    /\ "summary" \in DOMAIN analyses[1]
    /\ analyses[1].strong_matches # <<>>
    /\ analyses[1].failed_patches # <<>>

C11_ListsAndSummary ==
    \A k \in 1..Len(analyses) :
        /\ BucketNames \cup {"summary"} \subseteq DOMAIN analyses[k]
        /\ analyses[k].summary.total_experiments = Len(results)
        /\ analyses[k].summary.strong_match_count = Len(analyses[k].strong_matches)
        /\ analyses[k].summary.partial_match_count = Len(analyses[k].partial_matches)
        /\ analyses[k].summary.weak_match_count = Len(analyses[k].weak_matches)
        /\ analyses[k].summary.successful_patches
             = Len(results) - Len(analyses[k].failed_patches)
        /\ analyses[k].summary.expected_keywords = expected_keywords(source_prompt)

\* the results of the collection the classification rule calls strong
ClaimedStrong ==
    SelectSeq(results,
              LAMBDA r : ClaimedBucket(r, expected_keywords(source_prompt))
                           = "strong_matches")

\* C12 (as claimed): for a collection without a strong match, the empty
\* collection included, the pipeline from analyze_results to
\* find_knowledge_hotspots ends with the marker "No strong matches found" and
\* raises nothing.
C12_EmptyStateReported ==
    \A k \in 1..Len(hotspots) :
        ClaimedStrong = <<>> => hotspots[k] = [message |-> "No strong matches found"]

\* the number of elements of xs equal to x
Occurrences(xs, x) == Cardinality({k \in 1..Len(xs) : xs[k] = x})

\* the index at which x is first seen in xs
FirstSeen(xs, x) == CHOOSE k \in 1..Len(xs) : xs[k] = x /\ \A j \in 1..(k - 1) : xs[j] # x

\* `top` lists the n best-ranked keys of xs with their counts, best first; a
\* key is ranked before another when it has the higher count, or the same
\* count and was seen earlier
IsTopList(top, xs, n) ==
    LET keys == ToSet(xs)
        count == [x \in keys |-> Occurrences(xs, x)]
        first == [x \in keys |-> FirstSeen(xs, x)]
        RankedBefore(a, b) ==
            \/ count[a] > count[b]
            \/ count[a] = count[b] /\ first[a] < first[b]
    IN  /\ Len(top) = Min(n, Cardinality(keys))
        /\ \A r \in 1..Len(top) : top[r][1] \in keys /\ top[r][2] = count[top[r][1]]
        /\ \A r, q \in 1..Len(top) : r < q => RankedBefore(top[r][1], top[q][1])
        /\ \A x \in keys \ {top[r][1] : r \in 1..Len(top)} :
             \A r \in 1..Len(top) : RankedBefore(top[r][1], x)

Column(rs, field) == [k \in 1..Len(rs) |-> rs[k][field]]

\* strong results at (14,21), (14,21), (7,21)
ExampleStrong ==
    << SweepResult(<<14, 21>>, StrongSuffix), SweepResult(<<14, 21>>, StrongSuffix),
       SweepResult(<<7, 21>>, StrongSuffix) >>

\* C13: the hotspots of a collection with strong matches are tallied over the
\* strong results alone: the 5 extract layers, the 5 inject layers and the 10
\* pairs with the highest counts, each with its count, in descending count
\* order and, among equal counts, in the order first seen; and strong results
\* at (14,21), (14,21), (7,21) give the pair list ((14,21),2), ((7,21),1).
C13_TopByCount ==
    /\ hotspots # <<>> =>
         LET strong == ClaimedStrong
             extracts == Column(strong, "extract_layer")
             injects == Column(strong, "inject_layer")
             pairs == [j \in 1..Len(strong) |-> Pair(strong[j])]
         IN  strong # <<>> =>
               \A k \in 1..Len(hotspots) :
                  /\ IsTopList(hotspots[k].best_extract_layers, extracts, 5)
                  /\ IsTopList(hotspots[k].best_inject_layers, injects, 5)
                  /\ IsTopList(hotspots[k].best_layer_pairs, pairs, 10)
    /\ find_knowledge_hotspots([strong_matches |-> ExampleStrong]).best_layer_pairs
         = << << <<14, 21>>, 2 >>, << <<7, 21>>, 1 >> >>

\* hotspots of a collection with more than 10 strong pairs and more than 5
\* strong extract and inject layers, whose most frequent pair was not the
\* first one seen and is followed by pairs of equal count
C13_Witness ==
    /\ hotspots # <<>>
    /\ "best_layer_pairs" \in DOMAIN hotspots[1]
    /\ Cardinality({Pair(ClaimedStrong[j]) : j \in 1..Len(ClaimedStrong)}) > 10
    /\ Cardinality(ToSet(Column(ClaimedStrong, "extract_layer"))) > 5
    /\ Cardinality(ToSet(Column(ClaimedStrong, "inject_layer"))) > 5
    /\ Len(ClaimedStrong) < Len(results)
    /\ hotspots[1].best_layer_pairs[1][2] = 2
    /\ hotspots[1].best_layer_pairs[1][1] # Pair(ClaimedStrong[1])
    /\ hotspots[1].best_layer_pairs[2][2] = hotspots[1].best_layer_pairs[3][2]

NoDuplicates(xs) == Cardinality(ToSet(xs)) = Len(xs)

SortedBySum(xs) ==
    \A k \in 1..(Len(xs) - 1) : xs[k][1] + xs[k][2] <= xs[k + 1][1] + xs[k + 1][2]

\* C15 (as claimed): for a list of n pairs and a cap K with 1 <= K < n the
\* list is sorted by extract + inject and exactly K pairs are returned, the
\* i-th (i = 0..K-1) being the one at index floor(i*n/K) of the sorted list,
\* all of them elements of the input.
C15_FloorIndices ==
    \A c \in 1..Len(selected) :
        LET s == selected[c]
            n == Len(s.combinations)
            K == s.max_count
        IN  (1 <= K /\ K < n) =>
              /\ ToSet(s.combinations_after) = ToSet(s.combinations)
              /\ Len(s.combinations_after) = n
              /\ SortedBySum(s.combinations_after)
              /\ Len(s.returned) = K
              /\ \A k \in 1..K :
                   s.returned[k] = s.combinations_after[((k - 1) * n) \div K + 1]
              /\ ToSet(s.returned) \subseteq ToSet(s.combinations)

\* C15 (amended): as above, but the i-th returned pair is the one at index
\* floor(i*n/K) or, only where i*n/K is a positive integer, possibly the one
\* before it; the indices are strictly increasing; and for n = 30, K = 22 the
\* pair for i = 11 is the one at index 14, not 15.
C15_IndicesWithinOne ==
    \A c \in 1..Len(selected) :
        LET s == selected[c]
            n == Len(s.combinations)
            K == s.max_count
            sorted == s.combinations_after
            at(k) == CHOOSE j \in 1..n : sorted[j] = s.returned[k]
        IN  (1 <= K /\ K < n) =>
              /\ ToSet(sorted) = ToSet(s.combinations)
              /\ Len(sorted) = n
              /\ SortedBySum(sorted)
              /\ Len(s.returned) = K
              /\ ToSet(s.returned) \subseteq ToSet(s.combinations)
              /\ \A k \in 1..K :
                   \/ at(k) = ((k - 1) * n) \div K + 1
                   \/ /\ at(k) = ((k - 1) * n) \div K
                      /\ k > 1
                      /\ ((k - 1) * n) % K = 0
              /\ \A k \in 1..(K - 1) : at(k) < at(k + 1)
              /\ (n = 30 /\ K = 22) => at(12) = 15

\* 22 of 30 pairs were selected
C15_Witness ==
    /\ selected # <<>>
    /\ Len(selected[1].combinations) = 30
    /\ selected[1].max_count = 22
    /\ Len(selected[1].returned) = 22
    /\ selected[1].returned[12] = selected[1].combinations_after[15]

\* the integers a, a + step, a + 2*step, ... below b
Stepped(a, b, step) == {j \in a..(b - 1) : (j - a) % step = 0}

\* the four families of pairs for a layer count of at least 10
ClaimedFamilies(total) ==
    {<<l, l>> : l \in Stepped(0, total, total \div 10)}
    \cup UNION {{<<e, j>> : j \in Stepped(e, Min(e + 15, total), 3)} : e \in {2, 5, 8}}
    \cup UNION {{<<e, j>> : j \in Stepped(Max(0, e - 10), Min(e + 10, total), 3)} :
                e \in {12, 16, 20}}
    \cup UNION {{<<e, j>> : j \in Stepped(Max(0, e - 15), e, 3)} : e \in {22, 25}}

\* C16: the deduplicated pair list of the strategic sweep has no duplicates
\* and holds exactly the pairs of the four families: the diagonal in steps of
\* floor(total/10); extract 2, 5, 8 with inject from extract upwards in
\* steps of 3 below min(extract+15, total); extract 12, 16, 20 with inject
\* from max(0, extract-10) in steps of 3 below min(extract+10, total);
\* extract 22, 25 with inject from max(0, extract-15) in steps of 3 below
\* extract.
C16_FourFamilies ==
    \A k \in 1..Len(plans) :
        /\ NoDuplicates(plans[k].unique)
        /\ ToSet(plans[k].unique) = ClaimedFamilies(plans[k].total_layers)
        /\ \A p \in ToSet(plans[k].unique) :
             /\ p[1] \in {2, 5, 8} => p[2] >= p[1]
             /\ p[1] \in {22, 25} /\ p[2] # p[1] => p[2] < p[1]

\* the shipped configuration: 59 generated pairs, 57 after deduplication,
\* with inject layers on both sides of a mid extract layer
C16_Witness ==
    /\ plans # <<>>
    /\ plans[1].total_layers = total_layers
    /\ Len(plans[1].generated) = 59
    /\ Len(plans[1].unique) = 57
    /\ <<12, 2>> \in ToSet(plans[1].unique)
    /\ <<12, 20>> \in ToSet(plans[1].unique)

\* the layers the targeted sweep tests for a subset name: the curated list,
\* or every second layer of the early, mid or late layers
ClaimedSubset(name) ==
    IF name = "early" THEN <<0, 2, 4, 6>>
    ELSE IF name = "mid" THEN <<7, 9, 11, 13, 15, 17, 19>>
    ELSE IF name = "late" THEN <<21, 23, 25, 27>>
    ELSE <<2, 7, 14, 21, 26>>

\* the pairs of layers x layers in row-major order
RowMajor(layers) ==
    [k \in 1..(Len(layers) * Len(layers)) |->
        <<layers[((k - 1) \div Len(layers)) + 1], layers[((k - 1) % Len(layers)) + 1]>>]

C17_WitnessEarly ==
    /\ kind = "targeted"
    /\ layer_subset = "early"
    /\ pc = "done"
    /\ Len(attempts) = 16
    /\ results # <<>>

\* the characters of generated_text beyond the target prompt's length
RawSuffix(r) ==
    IF Len(r.generated_text) > Len(r.target_prompt)
    THEN SubSeq(r.generated_text, Len(r.target_prompt) + 1, Len(r.generated_text))
    ELSE <<>>

\* C18 (as claimed): new_tokens of every result is the part of generated_text
\* beyond the target prompt's length, empty when generated_text is not longer
\* than the prompt, and every request whose generate call returned has a
\* result.
C18_RawSuffix ==
    /\ \A k \in 1..Len(results) : results[k].new_tokens = RawSuffix(results[k])
    /\ Len(results) = Len(ResultAttempts)

Whitespace == {9, 10, 11, 12, 13, 32}

\* t is s without its leading and trailing whitespace
IsStripped(t, s) ==
    \E a, b \in 0..Len(s) :
        /\ a + b <= Len(s)
        /\ t = SubSeq(s, a + 1, Len(s) - b)
        /\ \A k \in 1..a : s[k] \in Whitespace
        /\ \A k \in (Len(s) - b + 1)..Len(s) : s[k] \in Whitespace
        /\ t # <<>> => t[1] \notin Whitespace /\ t[Len(t)] \notin Whitespace

\* C18 (amended): new_tokens of every result is the part of generated_text
\* beyond the target prompt's length with its leading and trailing whitespace
\* removed, empty when generated_text is not longer than the prompt, and
\* every request whose generate call returned has a result.
C18_StrippedSuffix ==
    /\ \A k \in 1..Len(results) :
         /\ IsStripped(results[k].new_tokens, RawSuffix(results[k]))
         /\ Len(results[k].generated_text) <= Len(results[k].target_prompt)
              => results[k].new_tokens = <<>>
    /\ Len(results) = Len(ResultAttempts)

\* a result whose generated text is the prompt alone, and one whose suffix
\* lost its leading space
C18_Witness ==
    \E j, k \in 1..Len(results) :
        /\ results[j].generated_text = results[j].target_prompt
        /\ results[j].new_tokens = <<>>
        /\ results[k].new_tokens # <<>>
        /\ Len(results[k].new_tokens) < Len(RawSuffix(results[k]))

\* C19: the patch_applied field of every result is true exactly when the
\* marker position was overwritten once during that request's own generate
\* call, whatever happened in the requests before it.
C19_AppliedIffFired ==
    /\ Len(results) = Len(ResultAttempts)
    /\ \A k \in 1..Len(results) :
         /\ Pair(results[k]) = Pair(ResultAttempts[k])
         /\ results[k].patch_applied <=> ResultAttempts[k].writes = 1
    /\ pc = "generate" => (patch_applied <=> calls.writes = 1)

\* after a request whose patch was applied, one whose hook never fired, and
\* then one whose patch was applied again
C19_Witness ==
    /\ Len(results) >= 2
    /\ results[1].patch_applied
    /\ ~results[2].patch_applied
    /\ ResultAttempts[2].writes = 0
    /\ pc = "generate"
    /\ patch_applied

CapturedStates == NumLayers + 1

\* the attempts whose extraction step is over
Extracted(k) ==
    attempts[k].outcome # "running" \/ pc \in {"locate", "arm", "generate"}

\* C20 (as claimed): extraction returns the captured state at index L+1 at
\* the last token position, it fails exactly when L+1 lies beyond the
\* captured states, and a request whose extraction failed registers no hook
\* and yields no result.
C20_FailsBeyondCaptured ==
    /\ pc \in {"locate", "arm", "generate"} =>
         /\ source_repr.run = "source"
         /\ source_repr.state = (extract_layer + 1) % CapturedStates
         /\ source_repr.pos = Len(source_prompt)
    /\ \A k \in 1..Len(attempts) :
         Extracted(k) =>
            (attempts[k].outcome = "extract_error"
               <=> attempts[k].extract_layer + 1 >= CapturedStates)
    /\ pc = "extract" => hooks = <<>>
    /\ Len(results) = Len(ResultAttempts)

\* C20 (amended): extraction returns the captured state at Python index L+1
\* (a negative index counting from the end) at the last token position, it
\* fails exactly when L+1 is no index of the captured states, that is
\* L+1 >= count or L+1 < -count, and a request whose extraction failed
\* registers no hook and yields no result.
C20_FailsOutsideIndexRange ==
    /\ pc \in {"locate", "arm", "generate"} =>
         /\ source_repr.run = "source"
         /\ source_repr.state = (extract_layer + 1) % CapturedStates
         /\ source_repr.pos = Len(source_prompt)
    /\ \A k \in 1..Len(attempts) :
         Extracted(k) =>
            (attempts[k].outcome = "extract_error"
               <=> \/ attempts[k].extract_layer + 1 >= CapturedStates
                   \/ attempts[k].extract_layer + 1 < -CapturedStates)
    /\ pc = "extract" => hooks = <<>>
    /\ Len(results) = Len(ResultAttempts)

\* a sweep over an extract layer below the index range has ended: every
\* extraction failed, there is no result and no hook
C20_Witness ==
    /\ pc = "done"
    /\ Len(attempts) = 2
    /\ \A k \in 1..2 :
         /\ attempts[k].outcome = "extract_error"
         /\ attempts[k].extract_layer + 1 < -CapturedStates
    /\ results = <<>>
    /\ hooks = <<>>

\* the entities of SourcePrompts with a curated keyword list
Curated == {GeorgeWashington}

\* rome
RomeLowercased == <<114, 111, 109, 101>>

\* C21: for an entity without a curated keyword list every analysis of a
\* non-empty collection is a regular one: its keyword list is the single
\* lowercased entity name (rome for Rome), each result is in the bucket that
\* list gives it, and the steps that read the analysis raise nothing.
C21_KeywordFallback ==
    (source_prompt \notin Curated /\ results # <<>>) =>
        /\ source_prompt = Rome
        /\ \A k \in 1..Len(analyses) :
             /\ DOMAIN analyses[k] = BucketNames \cup {"summary"}
             /\ analyses[k].summary.expected_keywords = <<RomeLowercased>>
             /\ analyses[k].summary.total_experiments = Len(results)
             /\ \A b \in BucketNames :
                  analyses[k][b] =
                      SelectSeq(results,
                                LAMBDA r : ClaimedBucket(r, <<RomeLowercased>>) = b)
        /\ \A k \in 1..Len(hotspots) : "raised" \notin DOMAIN hotspots[k]

\* results classified for Rome: one names it, one does not
C21_Witness ==
    /\ source_prompt = Rome
    /\ Len(analyses) >= 1
    /\ "summary" \in DOMAIN analyses[1]
    /\ analyses[1].partial_matches # <<>>
    /\ analyses[1].weak_matches # <<>>
    /\ hotspots # <<>>

\* C22: every hook invocation of a request whose hidden states are longer
\* than the marker position while the request has not fired overwrites the
\* vector at the marker position with the source vector and marks the request
\* fired; every other invocation returns the layer output as it received it
\* and leaves the fired mark as it was, so a request stays armed through
\* invocations that are too short and fires on the first one that is not.
C22_FirstQualifyingFires ==
    [][(pc = "generate" /\ calls'.count = calls.count + 1) =>
          IF calls'.len > patch_position /\ ~patch_applied
          THEN /\ calls'.writes = calls.writes + 1
               /\ calls'.returned.hidden_states[patch_position + 1] = source_repr
               /\ calls'.natural.hidden_states[patch_position + 1] # source_repr
               /\ patch_applied'
          ELSE /\ calls'.writes = calls.writes
               /\ calls'.returned = calls'.natural
               /\ patch_applied' <=> patch_applied]_vars

\* the hook fired in the second forward pass of a request, the first one
\* having been too short to hold the marker position
C22_Witness ==
    /\ pc = "generate"
    /\ calls.count = 2
    /\ ~calls.before
    /\ calls.len > patch_position
    /\ calls.writes = 1
    /\ patch_applied
    /\ calls.returned.hidden_states[patch_position + 1] = source_repr

\* C23: in every state of every sequence of sweeps at most one hook is
\* registered on the model; one is registered only while a request is between
\* register_forward_hook and the end of its guarded generate call, and then it
\* is that request's hook on that request's inject layer; none is registered
\* while a request extracts its source vector or looks for its marker, nor
\* between requests or sweeps.
C23_OneActiveIntervention ==
    /\ Len(hooks) <= 1
    /\ hooks # <<>> =>
         /\ pc = "generate"
         /\ hooks[1].handle = hook_handle
         /\ hooks[1].layer = PyIndex(inject_layer, NumLayers)
         /\ hooks[1].source_repr = source_repr
         /\ hooks[1].patch_position = patch_position
    /\ pc \in {"extract", "locate"} => hooks = <<>>
    /\ pc \in {"idle", "loop", "arm", "done"} => hooks = <<>>

\* the second request of a sweep is inside generate, its hook the only one,
\* after the first request returned a result with its patch applied
C23_Witness ==
    /\ pc = "generate"
    /\ i = 2
    /\ attempts[1].outcome = "result"
    /\ attempts[1].writes = 1
    /\ Len(hooks) = 1
    /\ calls.count = MaxCalls

\* C24: with two requests in flight on one model the at-most-once rule holds
\* for a request only as long as its register-to-deregister section did not
\* overlap the other's: then its generate call has its marker position
\* overwritten at most once and its hook writes at most once.  With
\* overlapping sections a hook can read patch_applied before the other caller
\* has set it and write once per caller, and a generate call can have its
\* marker position overwritten once per registered hook, that is twice, which
\* takes both hooks on the call's inject layer and marker position.
C24_RaceBreaksAtMostOnce ==
    \A t \in DOMAIN inflight :
        /\ ~inflight[t].overlapped =>
             inflight[t].overwrites <= 1 /\ inflight[t].fired <= 1
        /\ inflight[t].overwrites <= Cardinality(Requests)
        /\ inflight[t].fired <= Cardinality(Requests)
        /\ inflight[t].overwrites > 1 =>
             /\ inflight[Other(t)].inject_layer = inflight[t].inject_layer
             /\ inflight[Other(t)].patch_position = inflight[t].patch_position
             /\ inflight[Other(t)].pc # "arm"

\* one generate call has had its marker position overwritten twice, in a
\* single forward pass, and its request's hook has written twice
C24_Witness ==
    /\ inflight # <<>>
    /\ inflight[1].overwrites = 2
    /\ inflight[1].count = 0
    /\ inflight[1].fired = 2
    /\ inflight[1].overlapped

\* C25 (as claimed): for every pair list of size n and every cap K >= 1 the
\* returned list has min(K, n) pairs, all of them pairs of the input, and for
\* K >= n it holds every pair of the input once.
C25_SizeIsMin ==
    \A c \in 1..Len(selected) :
        LET s == selected[c]
            n == Len(s.combinations)
            K == s.max_count
        IN  K >= 1 =>
              /\ Len(s.returned) = Min(K, n)
              /\ ToSet(s.returned) \subseteq ToSet(s.combinations)
              /\ K >= n =>
                   /\ ToSet(s.returned) = ToSet(s.combinations)
                   /\ NoDuplicates(s.returned)

\* C26 (as claimed): whatever layer count is configured, every pair the
\* strategic generator produces, and so every pair the sweep requests, has
\* its extract and its inject layer in 0..total_layers-1.
C26_StrategicPairsInRange ==
    \A k \in 1..Len(plans) :
        \A p \in ToSet(plans[k].generated) \cup ToSet(plans[k].combinations) :
            /\ 0 <= p[1] /\ p[1] < plans[k].total_layers
            /\ 0 <= p[2] /\ p[2] < plans[k].total_layers

\* the elements of rs at the indices f sends to b, in the order of rs
Restrict(rs, f, b) ==
    LET idx == {k \in 1..Len(rs) : f[k] = b}
    IN  [r \in 1..Cardinality(idx) |->
            rs[CHOOSE k \in idx : Cardinality({j \in idx : j < k}) = r - 1]]

\* C27: every analysis of a non-empty collection splits it into the four
\* buckets: each result, counted by its place in the collection, is in
\* exactly one bucket, and each bucket lists its results in the collection's
\* order; so the four bucket sizes add up to total_experiments, and
\* successful_patches is the sum of the strong, partial and weak counts.
C27_BucketsPartition ==
    \A k \in 1..Len(analyses) :
        results # <<>> =>
            LET a == analyses[k]
            IN  /\ \E f \in [1..Len(results) -> BucketNames] :
                     \A b \in BucketNames : a[b] = Restrict(results, f, b)
                /\ Len(a.strong_matches) + Len(a.partial_matches)
                     + Len(a.weak_matches) + Len(a.failed_patches)
                     = a.summary.total_experiments
                /\ a.summary.total_experiments = Len(results)
                /\ a.summary.successful_patches
                     = a.summary.strong_match_count + a.summary.partial_match_count
                       + a.summary.weak_match_count
                /\ a.summary.strong_match_count = Len(a.strong_matches)
                /\ a.summary.partial_match_count = Len(a.partial_matches)
                /\ a.summary.weak_match_count = Len(a.weak_matches)

\* an analysis of a collection that holds the same failed result twice
C27_Witness ==
    /\ analyses # <<>>
    /\ Len(results) = 2
    /\ results[1] = results[2]
    /\ analyses[1].failed_patches = results
    /\ analyses[1].summary.successful_patches = 0

\* C28: what the hook returns for a forward pass differs from the layer output
\* it received at most in the hidden vector at the marker position: the shape
\* (tuple or bare tensor), the other tuple elements, the sequence length and
\* the vector at every other position are those it received; the vector at
\* the marker position is the source vector when the invocation fired and the
\* received one when it did not; and the stored source vector stays the one
\* extract_representation returned.
C28_HookFrame ==
    /\ (pc = "generate" /\ calls.count > 0) =>
         LET fired == ~calls.before /\ calls.len > patch_position
         IN  /\ calls.returned.isTuple = calls.natural.isTuple
             /\ calls.returned.rest = calls.natural.rest
             /\ DOMAIN calls.returned = DOMAIN calls.natural
             /\ Len(calls.returned.hidden_states) = calls.len
             /\ \A p \in 1..calls.len :
                  p # patch_position + 1 =>
                      calls.returned.hidden_states[p] = calls.natural.hidden_states[p]
             /\ fired => calls.returned.hidden_states[patch_position + 1] = source_repr
             /\ ~fired => calls.returned = calls.natural
    /\ pc = "generate" =>
         /\ source_repr = extract_representation(<<>>, source_prompt, extract_layer).representation
         /\ \A k \in 1..Len(hooks) : hooks[k].source_repr = source_repr

\* the hook fired on a tuple-shaped output of three positions with the
\* marker in the middle
C28_Witness ==
    /\ pc = "generate"
    /\ calls.count = 1
    /\ ~calls.before
    /\ patch_position = 1
    /\ calls.len = 3
    /\ calls.returned.isTuple
    /\ calls.returned.rest = <<"attn">>
    /\ calls.returned.hidden_states[2] = source_repr
    /\ calls.returned.hidden_states[3] = calls.natural.hidden_states[3]

\* C29 (as claimed): two runs of the capped strategic sweep over the same
\* set of candidate pairs and the same cap select the same pairs, in
\* whatever order the deduplication listed the candidates.
C29_OrderIndependent ==
    \A j, k \in 1..Len(plans) :
        (/\ ToSet(plans[j].unique) = ToSet(plans[k].unique)
         /\ plans[j].max_combinations = plans[k].max_combinations
         /\ Len(plans[j].unique) > plans[j].max_combinations) =>
            ToSet(plans[j].combinations) = ToSet(plans[k].combinations)

\* C30: when the strategic sweep has more candidate pairs than its cap K, the
\* K pairs it keeps are pairwise distinct, are listed in non-decreasing order
\* of extract + inject, and include a candidate of the least sum; and whether
\* it has to cap or not, the sweep requests at most max_combinations pairs
\* and no pair twice.
C30_SelectedDistinct ==
    \A k \in 1..Len(plans) :
        LET p == plans[k]
            sum(x) == x[1] + x[2]
        IN  /\ Len(p.unique) > p.max_combinations =>
                 /\ NoDuplicates(p.combinations)
                 /\ SortedBySum(p.combinations)
                 /\ ToSet(p.combinations) \subseteq ToSet(p.unique)
                 /\ \E x \in ToSet(p.combinations) :
                      \A y \in ToSet(p.unique) : sum(x) <= sum(y)
                 /\ Len(p.combinations) = p.max_combinations
            /\ Len(p.unique) <= p.max_combinations => p.combinations = p.unique
            /\ Len(p.combinations) <= p.max_combinations
            /\ NoDuplicates(p.combinations)

\* the sweep capped its candidates at 50 in one run and at 30 in another
C30_Witness ==
    /\ Len(plans) = 2
    /\ Len(plans[1].unique) > 50
    /\ plans[1].max_combinations = 50
    /\ Len(plans[1].combinations) = 50
    /\ plans[2].max_combinations = 30
    /\ Len(plans[2].combinations) = 30
    /\ plans[1].combinations[1] = <<0, 0>>

====
